---- MODULE Spec2Model ----
(***************************************************************************)
(* Tour progress tracking and analytics aggregation (convex/analytics.ts). *)
(*                                                                         *)
(* The tourAnalytics table is a sequence of documents in creation order;   *)
(* a document's _id is its position in that sequence.  Optional fields     *)
(* that are absent hold Undefined.  Date.now() is the model clock, which   *)
(* is positive and never decreases.                                        *)
(*                                                                         *)
(* Spec runs the mutations and queries one after another, each handler as  *)
(* one step.  SpecConc runs two completeStep mutations concurrently, each  *)
(* split at its awaits (get, patch, commit).  SpecReport runs the queries   *)
(* over all tours (getRecentActivity, getOwnerAnalyticsSummary) on stores  *)
(* with a history of records, together with the mutations on the tours and *)
(* users tables.  SpecSteps runs deleteStep on tours with numbered steps.  *)
(* SpecRetain runs the tracker together with deleteTour and deleteStep.    *)
(* SpecWidget runs the Widget component: page loads, the restore timer and *)
(* the clicks, with the callbacks it invokes kept in emitted.              *)
(***************************************************************************)
EXTENDS Integers, Sequences, FiniteSets, TLC

\* ---------------------------------------------------------------- bounds
MaxCalls == 4       \* mutations run in one behaviour of Spec
MaxClock == 3       \* last instant Date.now() reaches

MaxAdminCalls == 2  \* mutations run in one behaviour of SpecReport, SpecSteps
MaxSteps == 4       \* steps of the tour SpecSteps starts with
TicksPerDay == 2    \* instants of the model clock in one calendar day
MaxPresses == 6     \* page loads and clicks in one behaviour of SpecWidget

TourIds == {"demo_tour", "tourA"}
UserIds == {"u1"}
StepIds == {"a", "1"}
Txs == {1, 2}

\* An optional field that was never written (startTour inserts neither
\* completedAt nor abandonedAt).  Date.now() never yields this value.
Undefined == 0

VARIABLES
    tourAnalytics,  \* the 'tourAnalytics' table, in creation order
    clock,          \* the last value Date.now() returned
    calls,          \* number of mutations run so far
    result,         \* outcome of the latest call: what it returned or threw
    passed,         \* history: <<analyticsId, stepId>> of every completeStep
                    \* call that found its record
    version,        \* per document: number of committed writes to it
    tx,             \* SpecConc: the two completeStep transactions in flight
    tours,          \* the 'tours' table: every tour created, in creation
                    \* order; a deleted one is kept with deleted = TRUE
    users,          \* the 'users' table, in creation order
    steps,          \* the 'steps' table: the stored steps, in creation order
    widget,         \* the state of the Widget component on the page
    storage,        \* localStorage: the item 'tour-step'
    emitted         \* the callbacks the mounted Widget has invoked, in order

\* The tables the tracker's handlers never touch.
admin == <<tours, users, steps>>

\* The browser side, which no backend handler touches.
ui == <<widget, storage, emitted>>

\* The backend, which the Widget reaches through its callbacks only.
backend == <<tourAnalytics, clock, calls, result, passed, version, tx,
             tours, users, steps>>

vars == <<tourAnalytics, clock, calls, result, passed, version, tx,
          tours, users, steps, widget, storage, emitted>>

\* Identifiers a caller may pass: those of the stored documents and one
\* more, under which nothing is stored.
AnalyticsIds == 1..(Len(tourAnalytics) + 1)

\* Date.now(): some instant not before the previous reading.
Instants == clock..(clock + 1)

Tick(now) ==
    /\ now \in Instants
    /\ now <= MaxClock
    /\ clock' = now

\* A mutation of Spec runs as one step; it reads Date.now() once, as now.
Mutation(now) ==
    /\ calls < MaxCalls
    /\ calls' = calls + 1
    /\ Tick(now)
    /\ UNCHANGED <<version, tx, admin, ui>>

\* ------------------------------------------------------------ primitives

\* JS truthiness of an optional numeric field: undefined and 0 are falsy.
Truthy(x) == x /= Undefined /\ x /= 0

\* ctx.db.get(id) yields a document (not null) exactly when one is stored.
Exists(db, id) == id \in 1..Len(db)

\* Positions of the entries for stepId in a stepProgress collection.
EntriesFor(progress, stepId) ==
    {j \in 1..Len(progress) : progress[j].stepId = stepId}

NoResult == [op |-> "none", args |-> <<>>, error |-> "", value |-> 0]

Returned(op, args, value) ==
    [op |-> op, args |-> args, error |-> "", value |-> value]

Threw(op, args, message) ==
    [op |-> op, args |-> args, error |-> message, value |-> 0]

\* ------------------------------------------------------------- startTour

\* Mutant: the inserted record already carries a completion timestamp.
NewRecordCompleted(tourId, userId, now) ==
    [tourId |-> tourId, userId |-> userId, startedAt |-> now,
     completedAt |-> now, abandonedAt |-> Undefined,
     stepProgress |-> <<>>]

NewRecord(tourId, userId, now) ==
    [tourId |-> tourId, userId |-> userId, startedAt |-> now,
     completedAt |-> Undefined, abandonedAt |-> Undefined,
     stepProgress |-> <<>>]

startTour(tourId, userId) ==
    \E now \in Instants :
        /\ Mutation(now)
        /\ tourAnalytics' = Append(tourAnalytics, NewRecord(tourId, userId, now))
        /\ result' = Returned("startTour", <<tourId, userId>>,
                              Len(tourAnalytics) + 1)
        /\ UNCHANGED passed

\* ---------------------------------------------------------- completeStep

\* Mutant: the search never finds the step.
FindIndexNever(progress, stepId) == -1

\* Array.prototype.findIndex: 0-based index of the first entry whose stepId
\* matches, or -1.
FindIndex(progress, stepId) ==
    LET hits == {i \in 1..Len(progress) : progress[i].stepId = stepId}
    IN  IF hits = {} THEN -1
        ELSE (CHOOSE i \in hits : \A j \in hits : i <= j) - 1

\* Mutant: a repeated step also gets a new start timestamp.
UpdatedProgressRestart(progress, stepId, now) ==
    LET stepIndex == FindIndex(progress, stepId)
    IN  IF stepIndex >= 0
        THEN [progress EXCEPT ![stepIndex + 1].completedAt = now,
                              ![stepIndex + 1].startedAt = now]
        ELSE Append(progress,
                    [stepId |-> stepId, startedAt |-> now, completedAt |-> now])

\* Mutant: a new step is put in front of the existing entries.
UpdatedProgressUnshift(progress, stepId, now) ==
    LET stepIndex == FindIndex(progress, stepId)
    IN  IF stepIndex >= 0
        THEN [progress EXCEPT ![stepIndex + 1].completedAt = now]
        ELSE <<[stepId |-> stepId, startedAt |-> now, completedAt |-> now]>>
             \o progress

\* Mutant: a new step replaces the collection instead of extending a copy.
UpdatedProgressFresh(progress, stepId, now) ==
    LET stepIndex == FindIndex(progress, stepId)
    IN  IF stepIndex >= 0
        THEN [progress EXCEPT ![stepIndex + 1].completedAt = now]
        ELSE <<[stepId |-> stepId, startedAt |-> now, completedAt |-> now]>>

\* Mutant: a new step is appended as started, not yet completed.
UpdatedProgressStartOnly(progress, stepId, now) ==
    LET stepIndex == FindIndex(progress, stepId)
    IN  IF stepIndex >= 0
        THEN [progress EXCEPT ![stepIndex + 1].completedAt = now]
        ELSE Append(progress,
                    [stepId |-> stepId, startedAt |-> now,
                     completedAt |-> Undefined])

\* Mutant: every entry of the record gets the completion timestamp.
UpdatedProgressAll(progress, stepId, now) ==
    LET stepIndex == FindIndex(progress, stepId)
    IN  IF stepIndex >= 0
        THEN [j \in 1..Len(progress) |->
                 [progress[j] EXCEPT !.completedAt = now]]
        ELSE Append([j \in 1..Len(progress) |->
                        [progress[j] EXCEPT !.completedAt = now]],
                    [stepId |-> stepId, startedAt |-> now, completedAt |-> now])

\* The copy of stepProgress after the update for stepId at instant now.
UpdatedProgress(progress, stepId, now) ==
    LET stepIndex == FindIndex(progress, stepId)
    IN  IF stepIndex >= 0
        THEN [progress EXCEPT ![stepIndex + 1].completedAt = now]
        ELSE Append(progress,
                    [stepId |-> stepId, startedAt |-> now, completedAt |-> now])

\* Mutant: the null check is missing.
RecordNotFoundNever(db, analyticsId) == FALSE

\* if (!analyticsRecord) throw new Error('Analytics record not found')
RecordNotFound(db, analyticsId) == ~Exists(db, analyticsId)

completeStep(analyticsId, stepId) ==
    \E now \in Instants :
        /\ Mutation(now)
        /\ IF RecordNotFound(tourAnalytics, analyticsId)
           THEN /\ result' = Threw("completeStep", <<analyticsId, stepId>>,
                                   "Analytics record not found")
                /\ UNCHANGED <<tourAnalytics, passed>>
           ELSE /\ tourAnalytics' =
                      [tourAnalytics EXCEPT ![analyticsId].stepProgress =
                          UpdatedProgress(@, stepId, now)]
                /\ passed' = passed \cup {<<analyticsId, stepId>>}
                /\ result' = Returned("completeStep", <<analyticsId, stepId>>,
                                      analyticsId)

\* ---------------------------------------------- completeTour, abandonTour

\* Mutant: patching a missing document is silently ignored.
PatchThrowsNever(db, id) == FALSE

\* ctx.db.patch(id, fields) shallow-merges fields into the stored document;
\* with no document under id it throws, and the mutation writes nothing.
PatchThrows(db, id) == ~Exists(db, id)

PatchMissing == "Update on nonexistent document ID"

completeTour(analyticsId) ==
    \E now \in Instants :
        /\ Mutation(now)
        /\ IF PatchThrows(tourAnalytics, analyticsId)
           THEN /\ result' = Threw("completeTour", <<analyticsId>>, PatchMissing)
                /\ UNCHANGED tourAnalytics
           ELSE /\ tourAnalytics' =
                      [tourAnalytics EXCEPT ![analyticsId].completedAt = now]
                /\ result' = Returned("completeTour", <<analyticsId>>,
                                      analyticsId)
        /\ UNCHANGED passed

\* Mutant: abandoning clears the completion timestamp.
abandonTourClearing(analyticsId) ==
    \E now \in Instants :
        /\ Mutation(now)
        /\ IF PatchThrows(tourAnalytics, analyticsId)
           THEN /\ result' = Threw("abandonTour", <<analyticsId>>, PatchMissing)
                /\ UNCHANGED tourAnalytics
           ELSE /\ tourAnalytics' =
                      [tourAnalytics EXCEPT ![analyticsId].abandonedAt = now,
                                            ![analyticsId].completedAt = Undefined]
                /\ result' = Returned("abandonTour", <<analyticsId>>,
                                      analyticsId)
        /\ UNCHANGED passed

abandonTour(analyticsId) ==
    \E now \in Instants :
        /\ Mutation(now)
        /\ IF PatchThrows(tourAnalytics, analyticsId)
           THEN /\ result' = Threw("abandonTour", <<analyticsId>>, PatchMissing)
                /\ UNCHANGED tourAnalytics
           ELSE /\ tourAnalytics' =
                      [tourAnalytics EXCEPT ![analyticsId].abandonedAt = now]
                /\ result' = Returned("abandonTour", <<analyticsId>>,
                                      analyticsId)
        /\ UNCHANGED passed

\* ------------------------------------------------------ getTourAnalytics

\* Greatest common divisor, for rates kept as exact fractions.
RECURSIVE Gcd(_, _)
Gcd(a, b) == IF b = 0 THEN a ELSE Gcd(b, a % b)

\* Mutant: no guard against nothing started; 0 / 0 is not a number.
RateUnguarded(completed, started) ==
    IF started > 0
    THEN LET g == Gcd(completed * 100, started)
         IN  [num |-> (completed * 100) \div g, den |-> started \div g]
    ELSE [num |-> 0, den |-> 0]

\* started > 0 ? (completed / started) * 100 : 0,
\* as an exact fraction in lowest terms.
Rate(completed, started) ==
    IF started > 0
    THEN LET g == Gcd(completed * 100, started)
         IN  [num |-> (completed * 100) \div g, den |-> started \div g]
    ELSE [num |-> 0, den |-> 1]

\* Mutant: the index range is not restricted to the tour.
ByTourAll(db, tourId) == db

\* .withIndex('by_tour', q => q.eq('tourId', tourId)).collect()
ByTour(db, tourId) ==
    LET Matches(doc) == doc.tourId = tourId IN SelectSeq(db, Matches)

\* analytics.filter((a) => a.completedAt)
CompletedOf(analytics) ==
    LET IsCompleted(doc) == Truthy(doc.completedAt)
    IN  SelectSeq(analytics, IsCompleted)

\* for (const record of analytics) for (const step of record.stepProgress):
\* the entries in the order the scan visits them.
RECURSIVE ScanEntries(_)
ScanEntries(analytics) ==
    IF analytics = <<>> THEN <<>>
    ELSE Head(analytics).stepProgress \o ScanEntries(Tail(analytics))

\* The keys of stepCompletion in the order the scan creates them.
RECURSIVE InsertionOrder(_, _)
InsertionOrder(entries, keys) ==
    IF entries = <<>> THEN keys
    ELSE InsertionOrder(Tail(entries),
            IF \E k \in 1..Len(keys) : keys[k] = Head(entries).stepId
            THEN keys
            ELSE Append(keys, Head(entries).stepId))

\* The number a step identifier denotes when it is a canonical array index
\* ("1", "2", "10"), else -1.  Property keys of that kind are enumerated
\* first, in ascending numeric order.
ArrayIndex(stepId) ==
    CASE stepId = "1" -> 1
      [] stepId = "2" -> 2
      [] stepId = "10" -> 10
      [] OTHER -> -1

RECURSIVE AscendingIndexKeys(_)
AscendingIndexKeys(keySet) ==
    IF keySet = {} THEN <<>>
    ELSE LET least == CHOOSE k \in keySet :
                          \A other \in keySet : ArrayIndex(k) <= ArrayIndex(other)
         IN  <<least>> \o AscendingIndexKeys(keySet \ {least})

\* Object.entries(stepCompletion): integer-like keys ascending, then the
\* other keys in insertion order.
EntriesOrder(keys) ==
    LET IsString(k) == ArrayIndex(k) < 0
    IN  AscendingIndexKeys({keys[k] : k \in {j \in 1..Len(keys) :
                                                  ArrayIndex(keys[j]) >= 0}})
        \o SelectSeq(keys, IsString)

\* Mutant: a step counts as started once per record of the tour.
StepCompletionRatesPerRecord(analytics) ==
    LET entries == ScanEntries(analytics)
        keys == EntriesOrder(InsertionOrder(entries, <<>>))
        completed(stepId) ==
            Cardinality({j \in EntriesFor(entries, stepId) :
                            Truthy(entries[j].completedAt)})
    IN  [k \in 1..Len(keys) |->
            [stepId |-> keys[k],
             completionRate |-> Rate(completed(keys[k]), Len(analytics))]]

StepCompletionRates(analytics) ==
    LET entries == ScanEntries(analytics)
        keys == EntriesOrder(InsertionOrder(entries, <<>>))
        started(stepId) == Cardinality(EntriesFor(entries, stepId))
        completed(stepId) ==
            Cardinality({j \in EntriesFor(entries, stepId) :
                            Truthy(entries[j].completedAt)})
    IN  [k \in 1..Len(keys) |->
            [stepId |-> keys[k],
             completionRate |-> Rate(completed(keys[k]), started(keys[k]))]]

\* What the handler of getTourAnalytics returns on the table db.
TourAnalyticsOf(db, tourId) ==
    LET analytics == ByTour(db, tourId)
        totalStarted == Len(analytics)
        totalCompleted == Len(CompletedOf(analytics))
    IN  [totalStarted |-> totalStarted,
         totalCompleted |-> totalCompleted,
         completionRate |-> Rate(totalCompleted, totalStarted),
         stepCompletionRates |-> StepCompletionRates(analytics)]

getTourAnalytics(tourId) ==
    /\ result' = Returned("getTourAnalytics", <<tourId>>,
                          TourAnalyticsOf(tourAnalytics, tourId))
    /\ UNCHANGED <<tourAnalytics, clock, calls, passed, version, tx, admin, ui>>

\* ------------------------------------------------ tours and users tables

\* The _id of the n-th document inserted into 'tours' and into 'users'.
TourDocIds == <<"t1", "t2", "t3">>
UserDocIds == <<"usr1", "usr2">>

OwnerIds == {"o1", "o2", "o3"}
Emails == {"a@x", "b@x"}

\* A field the document does not have.
Absent == ""

\* A mutation on the tours, users or steps table runs as one step.
AdminMutation ==
    /\ calls < MaxAdminCalls
    /\ calls' = calls + 1
    /\ UNCHANGED <<passed, version, tx, ui>>

\* Positions of the stored (not deleted) documents of 'tours'.
LiveTours(table) == {i \in 1..Len(table) : ~table[i].deleted}

\* createTour: inserts the tour; type and status are stored as given and
\* read by nothing modelled here.
createTour(name, tourSteps, ownerId) ==
    \E now \in Instants :
        /\ AdminMutation
        /\ clock' = now
        /\ Len(tours) < Len(TourDocIds)
        /\ tours' = Append(tours,
               [_id |-> TourDocIds[Len(tours) + 1], name |-> name,
                steps |-> tourSteps, ownerId |-> ownerId, userId |-> Absent,
                createdAt |-> now, updatedAt |-> now, deleted |-> FALSE])
        /\ result' = Returned("createTour", <<name, ownerId>>,
                              TourDocIds[Len(tours) + 1])
        /\ UNCHANGED <<tourAnalytics, users, steps>>

\* ctx.db.delete(id) on a stored tour
WithoutTour(table, id) ==
    [i \in 1..Len(table) |->
        IF table[i]._id = id THEN [table[i] EXCEPT !.deleted = TRUE]
        ELSE table[i]]

\* Mutant: the tour's Progress Records are deleted with it.
deleteTourCascading(id, subject) ==
    /\ AdminMutation
    /\ IF \E i \in LiveTours(tours) : tours[i]._id = id
       THEN /\ tours' = WithoutTour(tours, id)
            /\ tourAnalytics' =
                   LET Other(doc) == doc.tourId /= id
                   IN  SelectSeq(tourAnalytics, Other)
            /\ result' = Returned("deleteTour", <<id, subject>>, id)
       ELSE /\ result' = Threw("deleteTour", <<id, subject>>,
                               "Delete on nonexistent document ID")
            /\ UNCHANGED <<tours, tourAnalytics>>
    /\ UNCHANGED <<clock, users, steps>>

\* deleteTour called by subject (Absent: no identity).  The handler does
\* not read ctx.auth; ctx.db.delete(id) throws when no document is stored
\* under id.
deleteTour(id, subject) ==
    /\ AdminMutation
    /\ IF \E i \in LiveTours(tours) : tours[i]._id = id
       THEN /\ tours' = WithoutTour(tours, id)
            /\ result' = Returned("deleteTour", <<id, subject>>, id)
       ELSE /\ result' = Threw("deleteTour", <<id, subject>>,
                               "Delete on nonexistent document ID")
            /\ UNCHANGED tours
    /\ UNCHANGED <<tourAnalytics, clock, users, steps>>

\* auth.ts signUp: one account per email.
signUp(name, email) ==
    \E now \in Instants :
        /\ AdminMutation
        /\ clock' = now
        /\ IF \E i \in 1..Len(users) : users[i].email = email
           THEN /\ result' = Threw("signUp", <<name, email>>,
                       "An account with this email already exists")
                /\ UNCHANGED users
           ELSE /\ Len(users) < Len(UserDocIds)
                /\ users' = Append(users,
                       [_id |-> UserDocIds[Len(users) + 1], name |-> name,
                        email |-> email, createdAt |-> now])
                /\ result' = Returned("signUp", <<name, email>>,
                                      UserDocIds[Len(users) + 1])
        /\ UNCHANGED <<tourAnalytics, tours, steps>>

\* ----------------------------------------------------- getRecentActivity

RecentLimit == 10

\* Mutant: the default order, oldest first.
TakeAsc(db, limit) ==
    [k \in 1..(IF Len(db) < limit THEN Len(db) ELSE limit) |-> k]

\* .order('desc').take(limit): the identifiers of the newest documents,
\* newest first.
TakeDesc(db, limit) ==
    [k \in 1..(IF Len(db) < limit THEN Len(db) ELSE limit) |-> Len(db) + 1 - k]

\* ctx.db.get(id) with whatever string the record holds as tourId.  The
\* identifier names its table: the document stored under it is returned
\* whichever table that is.  A string that is no identifier makes get throw.
DbGet(id) ==
    IF \E i \in LiveTours(tours) : tours[i]._id = id
    THEN [threw |-> FALSE, found |-> TRUE,
          name |-> tours[CHOOSE i \in LiveTours(tours) : tours[i]._id = id].name]
    ELSE IF \E i \in 1..Len(users) : users[i]._id = id
    THEN [threw |-> FALSE, found |-> TRUE,
          name |-> users[CHOOSE i \in 1..Len(users) : users[i]._id = id].name]
    ELSE IF \E n \in 1..Len(TourDocIds) : TourDocIds[n] = id
    THEN [threw |-> FALSE, found |-> FALSE, name |-> Absent]
    ELSE IF \E n \in 1..Len(UserDocIds) : UserDocIds[n] = id
    THEN [threw |-> FALSE, found |-> FALSE, name |-> Absent]
    ELSE [threw |-> TRUE, found |-> FALSE, name |-> Absent]

\* let tourName = 'Unknown Tour'; try { ... } catch (e) { ... }
\* (typeof tour.name === 'string': the document has a name)
TourName(tourId) ==
    LET tour == DbGet(tourId)
    IN  IF ~tour.threw /\ tour.found /\ tour.name /= Absent
        THEN tour.name
        ELSE "Unknown Tour"

\* Mutant: an abandonment timestamp takes the record out of 'completed'.
ActionOfUnlessAbandoned(record) ==
    IF Truthy(record.completedAt) /\ ~Truthy(record.abandonedAt)
    THEN "completed" ELSE "started"

\* record.completedAt ? 'completed' : 'started'
ActionOf(record) == IF Truthy(record.completedAt) THEN "completed" ELSE "started"

\* The _creationTime of the i-th document inserted: strictly increasing.
CreationTime(i) == i

Activity(db, i) ==
    [id |-> i,
     user |-> IF db[i].userId = Absent THEN "Anonymous" ELSE db[i].userId,
     action |-> ActionOf(db[i]),
     target |-> TourName(db[i].tourId),
     timestamp |-> CreationTime(i)]

RecentActivityOf(db) ==
    LET recentAnalytics == TakeDesc(db, RecentLimit)
    IN  [k \in 1..Len(recentAnalytics) |-> Activity(db, recentAnalytics[k])]

getRecentActivity ==
    /\ result' = Returned("getRecentActivity", <<>>,
                          RecentActivityOf(tourAnalytics))
    /\ UNCHANGED <<tourAnalytics, clock, calls, passed, version, tx, admin, ui>>

\* ---------------------------------------------- getOwnerAnalyticsSummary

WindowLimit == 50
DayBuckets == 7

\* `${d.getFullYear()}-${d.getMonth() + 1}-${d.getDate()}`: one key per
\* local calendar day, here the number of the day the instant falls in.
DayKey(instant) == instant \div TicksPerDay

\* .withIndex('by_owner', q => q.eq('ownerId', ownerId)).collect():
\* the stored tours of the owner, in creation order.
ByOwner(table, ownerId) ==
    LET Owned(tour) == ~tour.deleted /\ tour.ownerId = ownerId
    IN  SelectSeq(table, Owned)

\* Mutant: a record that was also abandoned is not counted as completed.
CompletedOfSummaryUnlessAbandoned(analytics) ==
    LET IsCompleted(doc) == Truthy(doc.completedAt) /\ ~Truthy(doc.abandonedAt)
    IN  SelectSeq(analytics, IsCompleted)

\* analytics.filter((a) => !!a.completedAt)
CompletedOfSummary(analytics) ==
    LET IsCompleted(doc) == Truthy(doc.completedAt)
    IN  SelectSeq(analytics, IsCompleted)

\* One element of perTour.
PerTourEntry(db, tour) ==
    LET analytics == ByTour(db, tour._id)
        totalStarted == Len(analytics)
        totalCompleted == Len(CompletedOfSummary(analytics))
    IN  [tourId |-> tour._id,
         name |-> tour.name,
         completionRate |-> Rate(totalCompleted, totalStarted),
         stepsCount |-> Len(tour.steps)]

\* byDay after the loop over recent (identifiers, newest first).  A Map
\* lists its keys in the order of their first set: the key of position k is
\* new when no earlier position has it, and its count is the number of
\* positions that set it.
ByDay(db, recent) ==
    LET key(k) == DayKey(db[recent[k]].startedAt)
        first == {k \in 1..Len(recent) :
                     \A j \in 1..(k - 1) : key(j) /= key(k)}
        rank(k) == Cardinality({j \in first : j <= k})
    IN  [p \in 1..Cardinality(first) |->
            LET k == CHOOSE i \in first : rank(i) = p
            IN  [date |-> key(k),
                 completions |->
                     Cardinality({j \in 1..Len(recent) : key(j) = key(k)})]]

\* Array.prototype.slice(0, n)
Slice0(seq, n) == SubSeq(seq, 1, IF Len(seq) < n THEN Len(seq) ELSE n)

\* Array.prototype.reverse
Reverse(seq) == [k \in 1..Len(seq) |-> seq[Len(seq) + 1 - k]]

\* Mutant: the selected buckets are left newest first.
CompletionsByDayUnreversed(db) ==
    Slice0(ByDay(db, TakeDesc(db, WindowLimit)), DayBuckets)

CompletionsByDay(db) ==
    Reverse(Slice0(ByDay(db, TakeDesc(db, WindowLimit)), DayBuckets))

\* Mutant: the day buckets count the records of the owner's tours only.
OwnerAnalyticsSummaryScoped(db, table, ownerId) ==
    LET owned == ByOwner(table, ownerId)
        OfOwner(doc) == \E k \in 1..Len(owned) : owned[k]._id = doc.tourId
    IN  [perTour |-> [k \in 1..Len(owned) |-> PerTourEntry(db, owned[k])],
         completionsByDay |-> CompletionsByDay(SelectSeq(db, OfOwner))]

\* What the handler of getOwnerAnalyticsSummary returns.
OwnerAnalyticsSummary(db, table, ownerId) ==
    LET owned == ByOwner(table, ownerId)
    IN  [perTour |-> [k \in 1..Len(owned) |-> PerTourEntry(db, owned[k])],
         completionsByDay |-> CompletionsByDay(db)]

getOwnerAnalyticsSummary(ownerId) ==
    /\ result' = Returned("getOwnerAnalyticsSummary", <<ownerId>>,
                          OwnerAnalyticsSummary(tourAnalytics, tours, ownerId))
    /\ UNCHANGED <<tourAnalytics, clock, calls, passed, version, tx, admin, ui>>

\* --------------------------------------------------------------- deleteStep

\* ctx.auth.getUserIdentity(): no identity, or one whose subject is this.
Subjects == {Absent, "usr1", "usr2"}

\* The _id of a step is its position in the table; the last of these was
\* never issued.
StepDocIds == 1..(MaxSteps + 2)

\* Positions of the stored (not deleted) documents of 'steps'.
LiveSteps(table) == {i \in 1..Len(table) : ~table[i].deleted}

\* .withIndex("by_tourId_order", q => q.eq("tourId", tourId)).collect():
\* the stored steps of the tour by order, then by creation.
ByTourIdOrder(table, tourId) ==
    LET of == {i \in LiveSteps(table) : table[i].tourId = tourId}
        rank(i) == Cardinality({j \in of :
                       \/ table[j].order < table[i].order
                       \/ table[j].order = table[i].order /\ j <= i})
    IN  [p \in 1..Cardinality(of) |-> CHOOSE i \in of : rank(i) = p]

\* Mutant: the loop index is written as it is (order: i).
ResequencedFromZero(table, tourId) ==
    LET remainingSteps == ByTourIdOrder(table, tourId)
    IN  [i \in 1..Len(table) |->
            IF \E p \in 1..Len(remainingSteps) : remainingSteps[p] = i
            THEN [table[i] EXCEPT !.order =
                     (CHOOSE p \in 1..Len(remainingSteps) :
                          remainingSteps[p] = i) - 1]
            ELSE table[i]]

\* for (i = 0; ...) patch(remainingSteps[i]._id, { order: i + 1 })
Resequenced(table, tourId) ==
    LET remainingSteps == ByTourIdOrder(table, tourId)
    IN  [i \in 1..Len(table) |->
            IF \E p \in 1..Len(remainingSteps) : remainingSteps[p] = i
            THEN [table[i] EXCEPT !.order =
                     CHOOSE p \in 1..Len(remainingSteps) :
                         remainingSteps[p] = i]
            ELSE table[i]]

\* ctx.db.delete(id) on a stored step
WithoutStep(table, id) ==
    [i \in 1..Len(table) |->
        IF i = id THEN [table[i] EXCEPT !.deleted = TRUE] ELSE table[i]]

deleteStep(id, subject) ==
    /\ AdminMutation
    /\ IF subject = Absent
       THEN /\ result' = Threw("deleteStep", <<id, subject>>, "Unauthorized")
            /\ UNCHANGED steps
       ELSE IF id \notin LiveSteps(steps)
       THEN /\ result' = Threw("deleteStep", <<id, subject>>, "Not found")
            /\ UNCHANGED steps
       ELSE IF \A i \in LiveTours(tours) :
                  tours[i]._id = steps[id].tourId => tours[i].userId /= subject
       THEN /\ result' = Threw("deleteStep", <<id, subject>>, "Unauthorized")
            /\ UNCHANGED steps
       ELSE /\ steps' = Resequenced(WithoutStep(steps, id), steps[id].tourId)
            /\ result' = Returned("deleteStep", <<id, subject>>, Undefined)
    /\ UNCHANGED <<tourAnalytics, clock, tours, users>>

\* ---------------------------------------------------------------- Widget

\* localStorage.getItem yields null for an item that is not stored.  A
\* stored item is a string, here the sequence of its decimal digits.
NoItem == <<-1>>

\* No restore is scheduled.
NoTimer == -1

\* Number.prototype.toString of a non-negative integer
RECURSIVE toString(_)
toString(n) ==
    IF n < 10 THEN <<n>> ELSE Append(toString(n \div 10), n % 10)

\* parseInt(str, 10) of a string of decimal digits
RECURSIVE parseInt(_)
parseInt(str) ==
    IF Len(str) = 1 THEN str[1]
    ELSE parseInt(SubSeq(str, 1, Len(str) - 1)) * 10 + str[Len(str)]

\* No Widget is on the page.
Unmounted ==
    [mounted |-> FALSE, steps |-> <<>>, isOpen |-> FALSE,
     currentStepIndex |-> 0, isVisible |-> FALSE, timer |-> NoTimer,
     crashed |-> FALSE, straight |-> FALSE, events |-> 0]

NoWidget == widget = Unmounted /\ storage = NoItem /\ emitted = <<>>

Callback(name, stepId) == [name |-> name, stepId |-> stepId]

\* const currentStep = steps[currentStepIndex] is an element of steps.
CurrentStepDefined(w) ==
    w.currentStepIndex + 1 \in 1..Len(w.steps)

\* The render: null when not visible; the card, which reads
\* currentStep.title, only when open.  Reading a property of undefined
\* throws, and the component is gone.
Rendered(w) ==
    IF w.isVisible /\ w.isOpen /\ ~CurrentStepDefined(w)
    THEN [w EXCEPT !.crashed = TRUE]
    ELSE w

\* One more page load or click.
Interaction == widget.events < MaxPresses

\* Mutant: the buttons stay on the page after the Widget was hidden.
ButtonsShownAlways(w) == w.mounted /\ ~w.crashed /\ w.isOpen

\* Skip, Back, Next and the close button are rendered inside the card.
ButtonsShown(w) == w.mounted /\ ~w.crashed /\ w.isVisible /\ w.isOpen

\* The page loads with a tour of n steps (ids 1..n): first render, then
\* the effects in order: read the saved step and schedule its restore,
\* onStart, save the current step.  A reload drops the previous Widget and
\* its timer.
mount(n) ==
    LET first == [mounted |-> TRUE, steps |-> [i \in 1..n |-> i],
                  isOpen |-> TRUE, currentStepIndex |-> 0,
                  isVisible |-> TRUE, timer |-> NoTimer, crashed |-> FALSE,
                  straight |-> TRUE, events |-> widget.events + 1]
        savedStep == storage
    IN  /\ Interaction
        /\ IF Rendered(first).crashed
           THEN /\ widget' = Rendered(first)
                /\ emitted' = <<>>
                /\ UNCHANGED storage
           ELSE /\ widget' = [first EXCEPT !.timer =
                                 IF savedStep /= NoItem /\ savedStep /= <<>>
                                 THEN parseInt(savedStep) ELSE NoTimer]
                /\ emitted' = <<Callback("onStart", 0)>>
                /\ storage' = toString(0)
        /\ UNCHANGED backend

\* The timer of the first effect fires: setCurrentStepIndex(parseInt(...)),
\* and, after a render with a changed index, the save effect.
restoreStep ==
    /\ widget.mounted /\ ~widget.crashed
    /\ widget.timer /= NoTimer
    /\ LET next == Rendered([widget EXCEPT !.currentStepIndex = widget.timer,
                                           !.timer = NoTimer,
                                           !.straight = FALSE])
       IN  /\ widget' = next
           /\ storage' = IF ~next.crashed
                             /\ next.currentStepIndex /= widget.currentStepIndex
                          THEN toString(next.currentStepIndex)
                          ELSE storage
    /\ UNCHANGED <<emitted, backend>>

\* handleComplete: setIsVisible(false), removeItem('tour-step'), onComplete
handleComplete(w) ==
    /\ widget' = Rendered([w EXCEPT !.isVisible = FALSE])
    /\ storage' = NoItem
    /\ emitted' = Append(emitted, Callback("onComplete", 0))

\* A click on Next / Finish.  The save effect follows the render with the
\* new index.
handleNext ==
    /\ Interaction
    /\ ButtonsShown(widget)
    /\ LET w == [widget EXCEPT !.events = @ + 1]
           currentStep == w.steps[w.currentStepIndex + 1]
       IN  IF w.currentStepIndex < Len(w.steps) - 1
           THEN /\ widget' = Rendered([w EXCEPT !.currentStepIndex = @ + 1])
                /\ emitted' = Append(emitted,
                                     Callback("onStepComplete", currentStep))
                /\ storage' = toString(w.currentStepIndex + 1)
           ELSE handleComplete(w)
    /\ UNCHANGED backend

\* A click on Back, which is disabled on the first step.
handleBack ==
    /\ Interaction
    /\ ButtonsShown(widget)
    /\ widget.currentStepIndex /= 0
    /\ LET w == [widget EXCEPT !.events = @ + 1, !.straight = FALSE]
       IN  IF w.currentStepIndex > 0
           THEN /\ widget' = Rendered([w EXCEPT !.currentStepIndex = @ - 1])
                /\ storage' = toString(w.currentStepIndex - 1)
           ELSE /\ widget' = w
                /\ UNCHANGED storage
    /\ UNCHANGED <<emitted, backend>>

\* A click on Skip: setIsVisible(false), removeItem('tour-step'), onAbandon
handleSkip ==
    /\ Interaction
    /\ ButtonsShown(widget)
    /\ widget' = Rendered([widget EXCEPT !.events = @ + 1,
                                         !.isVisible = FALSE])
    /\ storage' = NoItem
    /\ emitted' = Append(emitted, Callback("onAbandon", 0))
    /\ UNCHANGED backend

\* A click on the avatar: setIsOpen(!isOpen)
toggleOpen ==
    /\ Interaction
    /\ widget.mounted /\ ~widget.crashed /\ widget.isVisible
    /\ widget' = Rendered([widget EXCEPT !.events = @ + 1,
                                         !.isOpen = ~widget.isOpen])
    /\ UNCHANGED <<storage, emitted, backend>>

\* A click on the close button of the card: setIsOpen(false)
closeCard ==
    /\ Interaction
    /\ ButtonsShown(widget)
    /\ widget' = Rendered([widget EXCEPT !.events = @ + 1, !.isOpen = FALSE])
    /\ UNCHANGED <<storage, emitted, backend>>

\* ------------------------------------- completeStep, run as a transaction

\* A mutation is a transaction: its reads come from a snapshot, its writes
\* are buffered, and the commit is refused and the handler run again when a
\* document it read has been written since.
IdleTx == [pc |-> "idle", analyticsId |-> 0, stepId |-> "", readVersion |-> 0,
           read |-> <<>>, updatedProgress |-> <<>>, attempts |-> 0]

\* const analyticsRecord = await ctx.db.get(args.analyticsId), and the throw
txGet(t) ==
    /\ tx[t].pc = "start"
    /\ IF RecordNotFound(tourAnalytics, tx[t].analyticsId)
       THEN tx' = [tx EXCEPT ![t].pc = "failed",
                             ![t].attempts = @ + 1]
       ELSE tx' = [tx EXCEPT ![t].pc = "read",
                             ![t].attempts = @ + 1,
                             ![t].read =
                                 tourAnalytics[tx[t].analyticsId].stepProgress,
                             ![t].readVersion = version[tx[t].analyticsId]]
    /\ UNCHANGED <<tourAnalytics, clock, calls, result, passed, version, admin, ui>>

\* now = Date.now(); updatedProgress = ...; await ctx.db.patch(...)
txPatch(t) ==
    /\ tx[t].pc = "read"
    /\ \E now \in Instants :
        /\ Tick(now)
        /\ tx' = [tx EXCEPT ![t].pc = "patched",
                            ![t].updatedProgress =
                                UpdatedProgress(tx[t].read, tx[t].stepId, now)]
    /\ UNCHANGED <<tourAnalytics, calls, result, passed, version, admin, ui>>

\* The document the transaction read was written by another one since.
Conflict(t) == version[tx[t].analyticsId] /= tx[t].readVersion

txCommit(t) ==
    /\ tx[t].pc = "patched"
    /\ ~Conflict(t)
    /\ tourAnalytics' = [tourAnalytics EXCEPT
           ![tx[t].analyticsId].stepProgress = tx[t].updatedProgress]
    /\ version' = [version EXCEPT ![tx[t].analyticsId] = @ + 1]
    /\ tx' = [tx EXCEPT ![t].pc = "done"]
    /\ UNCHANGED <<clock, calls, result, passed, admin, ui>>

txRetry(t) ==
    /\ tx[t].pc = "patched"
    /\ Conflict(t)
    /\ tx' = [tx EXCEPT ![t].pc = "start"]
    /\ UNCHANGED <<tourAnalytics, clock, calls, result, passed, version, admin, ui>>

\* ----------------------------------------------------------------- specs

Init ==
    /\ tourAnalytics = <<>>
    /\ clock = 1
    /\ calls = 0
    /\ NoWidget
    /\ result = NoResult
    /\ passed = {}
    /\ version = <<>>
    /\ tx = [t \in Txs |-> IdleTx]
    /\ tours = <<>>
    /\ users = <<>>
    /\ steps = <<>>

Next ==
    \/ \E tourId \in TourIds, userId \in UserIds : startTour(tourId, userId)
    \/ \E id \in AnalyticsIds, stepId \in StepIds : completeStep(id, stepId)
    \/ \E id \in AnalyticsIds : completeTour(id)
    \/ \E id \in AnalyticsIds : abandonTour(id)
    \/ \E tourId \in TourIds : getTourAnalytics(tourId)

Spec == Init /\ [][Next]_vars

\* Stores the tracker can have built by instant 1: one or two in-progress
\* records, each with no step entry or with one.
StartedRecords ==
    {[NewRecord(tourId, userId, 1) EXCEPT !.stepProgress = progress] :
        tourId \in TourIds, userId \in UserIds,
        progress \in {<<>>} \cup
                     {UpdatedProgress(<<>>, stepId, 1) : stepId \in StepIds}}

InitConc ==
    /\ tourAnalytics \in {<<r>> : r \in StartedRecords}
                          \cup {<<r, NewRecord("demo_tour", "u1", 1)>> :
                                    r \in StartedRecords}
    /\ clock = 1
    /\ calls = 0
    /\ NoWidget
    /\ result = NoResult
    /\ passed = {}
    /\ version = [i \in 1..Len(tourAnalytics) |-> 0]
    /\ tours = <<>>
    /\ users = <<>>
    /\ steps = <<>>
    /\ \E id1 \in AnalyticsIds, id2 \in AnalyticsIds,
          s1 \in StepIds, s2 \in StepIds :
          tx = [t \in Txs |->
                   [IdleTx EXCEPT !.pc = "start",
                                  !.analyticsId = IF t = 1 THEN id1 ELSE id2,
                                  !.stepId = IF t = 1 THEN s1 ELSE s2]]

NextConc ==
    \/ \E t \in Txs : txGet(t)
    \/ \E t \in Txs : txPatch(t)
    \/ \E t \in Txs : txCommit(t)
    \/ \E t \in Txs : txRetry(t)

SpecConc == InitConc /\ [][NextConc]_vars

\* ------------------------------------------------------------ SpecReport

\* The queries over a store with a history: tours t1 and t2 and user usr1
\* exist, and size records were started, perDay of them on each day, for
\* the tours t1 and t2, for the Widget's 'demo_tour' and for a tourId that
\* is the identifier of the user document.  Every fifth record is still in
\* progress, the others were completed, abandoned, or both.
HistorySizes == {0, 3, 11, 56}
PerDayChoices == {1, 7}
TourRefs == <<"t1", "t2", "demo_tour", "usr1">>

HistoryRecord(k, perDay) ==
    LET day == 1 + ((k - 1) \div perDay)
        started == day * TicksPerDay
                   + (IF (k - 1) % perDay = 0 THEN 0 ELSE TicksPerDay - 1)
        outcome == (k - 1) % 5
    IN  [tourId |-> TourRefs[((k - 1) % Len(TourRefs)) + 1],
         userId |-> IF (k - 1) % 3 = 2 THEN Absent ELSE "u1",
         startedAt |-> started,
         completedAt |-> IF outcome \in {1, 3, 4} THEN started ELSE Undefined,
         abandonedAt |-> IF outcome \in {2, 3} THEN started ELSE Undefined,
         stepProgress |-> <<>>]

History(size, perDay) == [k \in 1..size |-> HistoryRecord(k, perDay)]

TourStepLists == {<<>>, <<"1", "2">>}

InitReport ==
    /\ \E size \in HistorySizes, perDay \in PerDayChoices :
          /\ tourAnalytics = History(size, perDay)
          /\ clock = IF size = 0 THEN TicksPerDay
                     ELSE tourAnalytics[size].startedAt
    /\ calls = 0
    /\ NoWidget
    /\ result = NoResult
    /\ passed = {}
    /\ version = <<>>
    /\ tx = [t \in Txs |-> IdleTx]
    /\ tours = <<[_id |-> "t1", name |-> "Tour One", steps |-> <<"1", "2">>,
                  ownerId |-> "o1", userId |-> Absent, createdAt |-> 1,
                  updatedAt |-> 1, deleted |-> FALSE],
                 [_id |-> "t2", name |-> "Tour Two", steps |-> <<>>,
                  ownerId |-> "o2", userId |-> Absent, createdAt |-> 1,
                  updatedAt |-> 1, deleted |-> FALSE]>>
    /\ users = <<[_id |-> "usr1", name |-> "Alice", email |-> "a@x",
                  createdAt |-> 1]>>
    /\ steps = <<>>

NextReport ==
    \/ \E tourSteps \in TourStepLists, ownerId \in OwnerIds \ {"o3"} :
          createTour("Tour Three", tourSteps, ownerId)
    \/ \E n \in 1..Len(TourDocIds) : deleteTour(TourDocIds[n], "usr1")
    \/ \E email \in Emails : signUp("Bob", email)
    \/ getRecentActivity
    \/ \E ownerId \in OwnerIds : getOwnerAnalyticsSummary(ownerId)

SpecReport == InitReport /\ [][NextReport]_vars

\* ------------------------------------------------------------- SpecSteps

\* deleteStep on a store where the tour t1 of user usr1 has its steps
\* numbered 1..n, in any order of creation, and the tour t2 of user usr2
\* has one step.
InitSteps ==
    /\ \E n \in 1..MaxSteps : \E ordinals \in Permutations(1..n) :
          steps = [i \in 1..(n + 1) |->
                      IF i <= n
                      THEN [tourId |-> "t1", order |-> ordinals[i],
                            deleted |-> FALSE]
                      ELSE [tourId |-> "t2", order |-> 1, deleted |-> FALSE]]
    /\ tourAnalytics = <<>>
    /\ clock = 1
    /\ calls = 0
    /\ NoWidget
    /\ result = NoResult
    /\ passed = {}
    /\ version = <<>>
    /\ tx = [t \in Txs |-> IdleTx]
    /\ tours = <<[_id |-> "t1", name |-> "Tour One", steps |-> <<>>,
                  ownerId |-> Absent, userId |-> "usr1", createdAt |-> 1,
                  updatedAt |-> 1, deleted |-> FALSE],
                 [_id |-> "t2", name |-> "Tour Two", steps |-> <<>>,
                  ownerId |-> Absent, userId |-> "usr2", createdAt |-> 1,
                  updatedAt |-> 1, deleted |-> FALSE]>>
    /\ users = <<[_id |-> "usr1", name |-> "Alice", email |-> "a@x",
                  createdAt |-> 1],
                 [_id |-> "usr2", name |-> "Bob", email |-> "b@x",
                  createdAt |-> 1]>>

NextSteps ==
    \/ \E id \in StepDocIds, subject \in Subjects : deleteStep(id, subject)
    \/ \E n \in 1..Len(TourDocIds), subject \in Subjects :
          deleteTour(TourDocIds[n], subject)

SpecSteps == InitSteps /\ [][NextSteps]_vars

\* ------------------------------------------------------------ SpecRetain

\* The tracker and the deletions on one store: tour t1 of user usr1 with
\* two steps, tour t2 of user usr2, no Progress Record yet.  Records are
\* started for the stored tour t1 and for the Widget's 'demo_tour'.
TrackedTourIds == {"t1", "demo_tour"}

InitRetain ==
    /\ tourAnalytics = <<>>
    /\ clock = 1
    /\ calls = 0
    /\ NoWidget
    /\ result = NoResult
    /\ passed = {}
    /\ version = <<>>
    /\ tx = [t \in Txs |-> IdleTx]
    /\ tours = <<[_id |-> "t1", name |-> "Tour One", steps |-> <<>>,
                  ownerId |-> Absent, userId |-> "usr1", createdAt |-> 1,
                  updatedAt |-> 1, deleted |-> FALSE],
                 [_id |-> "t2", name |-> "Tour Two", steps |-> <<>>,
                  ownerId |-> Absent, userId |-> "usr2", createdAt |-> 1,
                  updatedAt |-> 1, deleted |-> FALSE]>>
    /\ users = <<[_id |-> "usr1", name |-> "Alice", email |-> "a@x",
                  createdAt |-> 1],
                 [_id |-> "usr2", name |-> "Bob", email |-> "b@x",
                  createdAt |-> 1]>>
    /\ steps = <<[tourId |-> "t1", order |-> 1, deleted |-> FALSE],
                 [tourId |-> "t1", order |-> 2, deleted |-> FALSE]>>

NextRetain ==
    \/ \E tourId \in TrackedTourIds, userId \in UserIds :
          startTour(tourId, userId)
    \/ \E id \in AnalyticsIds, stepId \in StepIds : completeStep(id, stepId)
    \/ \E id \in AnalyticsIds : completeTour(id)
    \/ \E id \in AnalyticsIds : abandonTour(id)
    \/ \E n \in 1..Len(TourDocIds) : deleteTour(TourDocIds[n], "usr1")
    \/ \E id \in StepDocIds : deleteStep(id, "usr1")
    \/ \E tourId \in TrackedTourIds : getTourAnalytics(tourId)

SpecRetain == InitRetain /\ [][NextRetain]_vars

\* ------------------------------------------------------------ SpecWidget

\* Page loads and clicks on the Widget.  The tour given to the Widget may
\* differ from one page load to the next; localStorage stays.
InitWidget == Init

NextWidget ==
    \/ \E n \in 0..MaxSteps : mount(n)
    \/ restoreStep
    \/ handleNext
    \/ handleBack
    \/ handleSkip
    \/ closeCard
    \/ toggleOpen

SpecWidget == InitWidget /\ [][NextWidget]_vars

\* ---------------------------------------------------------------- claims

\* The step just taken ran the mutation op.
Called(op) == calls' = calls + 1 /\ result'.op = op

Terminal(doc) == doc.completedAt /= Undefined \/ doc.abandonedAt /= Undefined

\* C1: no Progress Record has both its completion timestamp and its
\* abandonment timestamp set.
C1_MutuallyExclusiveTerminal ==
    \A i \in 1..Len(tourAnalytics) :
        ~(tourAnalytics[i].completedAt /= Undefined
          /\ tourAnalytics[i].abandonedAt /= Undefined)

\* C2: a record's stepProgress holds at most one entry per step identifier,
\* and exactly one for every step identifier passed to completeStep on it.
C2_OneEntryPerStep ==
    \A i \in 1..Len(tourAnalytics) : \A s \in StepIds :
        LET n == Cardinality(EntriesFor(tourAnalytics[i].stepProgress, s))
        IN  /\ n <= 1
            /\ <<i, s>> \in passed => n = 1

\* Both steps were passed for record 1, the first of them again later on.
C2_Witness ==
    /\ Len(tourAnalytics) >= 1
    /\ {<<1, s>> : s \in StepIds} \subseteq passed
    /\ Len(tourAnalytics[1].stepProgress) = 2
    /\ tourAnalytics[1].stepProgress[1].completedAt
           > tourAnalytics[1].stepProgress[2].completedAt

\* C3: once two concurrent completeStep transactions for different steps of
\* the same record have both committed, the record has an entry for both.
C3_NoLostUpdate ==
    (/\ \A t \in Txs : tx[t].pc = "done"
     /\ tx[1].analyticsId = tx[2].analyticsId
     /\ tx[1].stepId /= tx[2].stepId)
    => \A t \in Txs :
          EntriesFor(tourAnalytics[tx[t].analyticsId].stepProgress,
                     tx[t].stepId) /= {}

\* Both committed on the same record for different steps, and one of them
\* had read the record before the other committed, so it ran twice.
C3_Witness ==
    /\ \A t \in Txs : tx[t].pc = "done"
    /\ tx[1].analyticsId = tx[2].analyticsId
    /\ tx[1].stepId /= tx[2].stepId
    /\ \E t \in Txs : tx[t].attempts = 2
    /\ Len(tourAnalytics[tx[1].analyticsId].stepProgress) = 2

\* C4: completeStep for a step that already has an entry keeps the entry's
\* start timestamp, sets its completion timestamp to the call time and
\* leaves the number of entries as it was.
C4_RepeatUpdatesCompletionOnly ==
    [][\A id \in 1..Len(tourAnalytics), s \in StepIds :
          (/\ Called("completeStep")
           /\ result'.args = <<id, s>>
           /\ EntriesFor(tourAnalytics[id].stepProgress, s) /= {})
          => LET old == tourAnalytics[id].stepProgress
                 new == tourAnalytics'[id].stepProgress
             IN  /\ Len(new) = Len(old)
                 /\ \A j \in EntriesFor(old, s) :
                       /\ new[j].stepId = s
                       /\ new[j].startedAt = old[j].startedAt
                       /\ new[j].completedAt = clock']_vars

\* A repeated call, later than the first, has just run.
C4_Witness ==
    /\ result.op = "completeStep"
    /\ result.error = ""
    /\ \E j \in EntriesFor(tourAnalytics[result.args[1]].stepProgress,
                           result.args[2]) :
          LET e == tourAnalytics[result.args[1]].stepProgress[j]
          IN  e.startedAt < e.completedAt /\ e.completedAt = clock

\* C5: completeStep for a step without an entry appends exactly one entry,
\* with that step identifier and both timestamps equal to the call time;
\* the existing entries keep their values and order.
C5_NewStepAppended ==
    [][\A id \in 1..Len(tourAnalytics), s \in StepIds :
          (/\ Called("completeStep")
           /\ result'.args = <<id, s>>
           /\ EntriesFor(tourAnalytics[id].stepProgress, s) = {})
          => tourAnalytics'[id].stepProgress =
                 Append(tourAnalytics[id].stepProgress,
                        [stepId |-> s, startedAt |-> clock',
                         completedAt |-> clock'])]_vars

\* A second step has just been added behind an older entry.
C5_Witness ==
    /\ result.op = "completeStep"
    /\ result.error = ""
    /\ LET progress == tourAnalytics[result.args[1]].stepProgress
       IN  /\ Len(progress) = 2
           /\ progress[2] = [stepId |-> result.args[2], startedAt |-> clock,
                             completedAt |-> clock]
           /\ progress[1].completedAt < clock

\* C6: completeStep with an identifier under which no record is stored
\* fails with the not-found error, changes no record and creates none.
C6_CompleteStepNotFound ==
    [][(Called("completeStep") /\ ~Exists(tourAnalytics, result'.args[1]))
          => /\ result'.error = "Analytics record not found"
             /\ tourAnalytics' = tourAnalytics]_vars

C6_Witness ==
    /\ result.op = "completeStep"
    /\ result.error = "Analytics record not found"
    /\ ~Exists(tourAnalytics, result.args[1])
    /\ Len(tourAnalytics) >= 1

\* C7: completeTour and abandonTour with an identifier under which no
\* record is stored end in an error, change no record and create none.
C7_TerminalCallNotFound ==
    [][((Called("completeTour") \/ Called("abandonTour"))
        /\ ~Exists(tourAnalytics, result'.args[1]))
          => /\ result'.error /= ""
             /\ tourAnalytics' = tourAnalytics]_vars

C7_Witness ==
    /\ result.op \in {"completeTour", "abandonTour"}
    /\ result.error /= ""
    /\ ~Exists(tourAnalytics, result.args[1])
    /\ Len(tourAnalytics) >= 1

\* C8: startTour adds exactly one record, in progress, with no step entry
\* and the call time as start timestamp, returns its identifier and leaves
\* the records stored before unchanged.
C8_StartTourInsertsOne ==
    [][Called("startTour")
          => /\ Len(tourAnalytics') = Len(tourAnalytics) + 1
             /\ SubSeq(tourAnalytics', 1, Len(tourAnalytics)) = tourAnalytics
             /\ result'.error = ""
             /\ result'.value = Len(tourAnalytics')
             /\ tourAnalytics'[result'.value] =
                    [tourId |-> result'.args[1], userId |-> result'.args[2],
                     startedAt |-> clock', completedAt |-> Undefined,
                     abandonedAt |-> Undefined, stepProgress |-> <<>>]]_vars

\* A second record has just been started next to one that has progress.
C8_Witness ==
    /\ result.op = "startTour"
    /\ result.value = 2
    /\ Len(tourAnalytics) = 2
    /\ tourAnalytics[1].stepProgress /= <<>>
    /\ Terminal(tourAnalytics[1])

\* C9: once a record has a completion or an abandonment timestamp, no call
\* changes either of the two timestamps.
C9_TerminalIsFinal ==
    [][\A i \in 1..Len(tourAnalytics) :
          Terminal(tourAnalytics[i])
          => /\ tourAnalytics'[i].completedAt = tourAnalytics[i].completedAt
             /\ tourAnalytics'[i].abandonedAt = tourAnalytics[i].abandonedAt
      ]_vars

\* C10: getTourAnalytics returns the number of the tour's records as
\* totalStarted, the number of those with a completion timestamp as
\* totalCompleted, and totalCompleted / totalStarted * 100 as completionRate.
C10_TourTotals ==
    result.op = "getTourAnalytics"
    => LET ofTour == {i \in 1..Len(tourAnalytics) :
                          tourAnalytics[i].tourId = result.args[1]}
           done == {i \in ofTour : tourAnalytics[i].completedAt /= Undefined}
       IN  /\ result.value.totalStarted = Cardinality(ofTour)
           /\ result.value.totalCompleted = Cardinality(done)
           /\ result.value.completionRate.den > 0
           /\ result.value.completionRate.num * Cardinality(ofTour)
                  = Cardinality(done) * 100 * result.value.completionRate.den

\* Two records of the tour, one of them completed, and a record of
\* another tour: 2, 1, 50.
C10_Witness ==
    /\ result.op = "getTourAnalytics"
    /\ Len(tourAnalytics) = 3
    /\ result.value.totalStarted = 2
    /\ result.value.totalCompleted = 1
    /\ result.value.completionRate = [num |-> 50, den |-> 1]

\* The records of a tour, by identifier.
RecordsOfTour(tourId) ==
    {i \in 1..Len(tourAnalytics) : tourAnalytics[i].tourId = tourId}

\* C11: for a tour without Progress Records getTourAnalytics returns
\* completionRate 0 and no step rate, and does not fail.
C11_NoRecordsRateZero ==
    (result.op = "getTourAnalytics" /\ RecordsOfTour(result.args[1]) = {})
    => /\ result.error = ""
       /\ result.value.totalStarted = 0
       /\ result.value.completionRate = [num |-> 0, den |-> 1]
       /\ result.value.stepCompletionRates = <<>>

\* The tour asked for has no record while another tour has one with steps.
C11_Witness ==
    /\ result.op = "getTourAnalytics"
    /\ RecordsOfTour(result.args[1]) = {}
    /\ \E i \in 1..Len(tourAnalytics) : tourAnalytics[i].stepProgress /= <<>>

\* C12: getTourAnalytics emits exactly one pair for each step identifier
\* that occurs in the tour's records, in the order in which the scan
\* (records in creation order, entries in stored order) first meets them.
C12_FirstSeenOrder ==
    result.op = "getTourAnalytics"
    => LET entries == ScanEntries(ByTour(tourAnalytics, result.args[1]))
           rates == result.value.stepCompletionRates
           FirstPos(s) == CHOOSE j \in EntriesFor(entries, s) :
                              \A other \in EntriesFor(entries, s) : j <= other
       IN  /\ \A s \in StepIds :
                 Cardinality({k \in 1..Len(rates) : rates[k].stepId = s})
                     = IF EntriesFor(entries, s) = {} THEN 0 ELSE 1
           /\ \A k1, k2 \in 1..Len(rates) :
                 k1 < k2 => FirstPos(rates[k1].stepId) < FirstPos(rates[k2].stepId)

Newest(limit) ==
    {i \in 1..Len(tourAnalytics) : i > Len(tourAnalytics) - limit}

\* C14: getRecentActivity returns at most 10 entries, they are the most
\* recently created Progress Records, and they are ordered newest first.
C14_RecentPage ==
    result.op = "getRecentActivity"
    => LET page == result.value
       IN  /\ result.error = ""
           /\ Len(page) <= 10
           /\ {page[k].id : k \in 1..Len(page)} = Newest(10)
           /\ Len(page) = Cardinality(Newest(10))
           /\ \A k \in 1..(Len(page) - 1) :
                 /\ page[k].timestamp > page[k + 1].timestamp
                 /\ page[k].id > page[k + 1].id

\* More than ten records are stored and the page is full.
C14_Witness ==
    /\ result.op = "getRecentActivity"
    /\ Len(tourAnalytics) > 10
    /\ Len(result.value) = 10
    /\ result.value[1].id = Len(tourAnalytics)

\* C15: getRecentActivity does not fail, and returns one entry per record
\* of the page: with the name of the record's tour when that tour is
\* stored, and with "Unknown Tour" when the record's tourId is that of a
\* deleted tour or is not the identifier of a tour.
C15_UnknownTourFallback ==
    result.op = "getRecentActivity"
    => /\ result.error = ""
       /\ Len(result.value) = Cardinality(Newest(10))
       /\ \A k \in 1..Len(result.value) :
             LET tourId == tourAnalytics[result.value[k].id].tourId
                 stored == {i \in LiveTours(tours) : tours[i]._id = tourId}
             IN  /\ stored = {} => result.value[k].target = "Unknown Tour"
                 /\ \A i \in stored : result.value[k].target = tours[i].name

\* C16: a record's action is "completed" exactly when the record has a
\* completion timestamp, whatever its abandonment timestamp, and "started"
\* otherwise.
C16_ActionByCompletion ==
    result.op = "getRecentActivity"
    => \A k \in 1..Len(result.value) :
          LET record == tourAnalytics[result.value[k].id]
          IN  /\ result.value[k].action \in {"completed", "started"}
              /\ result.value[k].action = "completed"
                     <=> record.completedAt /= Undefined

\* The page holds a record that was only abandoned, reported as started,
\* and one with both timestamps, reported as completed.
C16_Witness ==
    /\ result.op = "getRecentActivity"
    /\ \E k \in 1..Len(result.value) :
          /\ tourAnalytics[result.value[k].id].completedAt = Undefined
          /\ tourAnalytics[result.value[k].id].abandonedAt /= Undefined
          /\ result.value[k].action = "started"
    /\ \E k \in 1..Len(result.value) :
          /\ tourAnalytics[result.value[k].id].completedAt /= Undefined
          /\ tourAnalytics[result.value[k].id].abandonedAt /= Undefined
          /\ result.value[k].action = "completed"

\* The tour documents of an owner, by position in the table.
OwnedTours(ownerId) ==
    {i \in LiveTours(tours) : tours[i].ownerId = ownerId}

\* C17: completionsByDay does not depend on ownerId: every owner gets the
\* same one in the same store state, that of the 50 most recently created
\* Progress Records of all tours; an owner with no tour gets an empty
\* perTour with it.
C17_DaysIndependentOfOwner ==
    result.op = "getOwnerAnalyticsSummary"
    => LET oldest == Len(tourAnalytics) - Cardinality(Newest(50)) + 1
           window == SubSeq(tourAnalytics, oldest, Len(tourAnalytics))
       IN  /\ \A ownerId \in OwnerIds :
                 OwnerAnalyticsSummary(tourAnalytics, tours, ownerId)
                     .completionsByDay = result.value.completionsByDay
           /\ OwnerAnalyticsSummary(window, <<>>, result.args[1])
                  .completionsByDay = result.value.completionsByDay
           /\ OwnedTours(result.args[1]) = {}
                  => result.value.perTour = <<>>

\* An owner without tours gets day buckets made of other owners' records.
C17_Witness ==
    /\ result.op = "getOwnerAnalyticsSummary"
    /\ OwnedTours(result.args[1]) = {}
    /\ result.value.perTour = <<>>
    /\ result.value.completionsByDay /= <<>>
    /\ \E ownerId \in OwnerIds :
          OwnedTours(ownerId) /= {} /\ RecordsOfTour("t1") /= {}

\* C18: completionsByDay has at most 7 buckets: the most recent distinct
\* days of start among the 50 most recently created records, oldest day
\* first, no day twice, each with the number of those records started on
\* that day.
C18_DayBuckets ==
    result.op = "getOwnerAnalyticsSummary"
    => LET buckets == result.value.completionsByDay
           DayOf(i) == DayKey(tourAnalytics[i].startedAt)
           days == {DayOf(i) : i \in Newest(50)}
           listed == {buckets[k].date : k \in 1..Len(buckets)}
       IN  /\ Len(buckets) <= 7
           /\ Len(buckets) = IF Cardinality(days) < 7
                             THEN Cardinality(days) ELSE 7
           /\ listed \subseteq days
           /\ \A day \in days \ listed : \A other \in listed : day < other
           /\ \A k \in 1..(Len(buckets) - 1) :
                 buckets[k].date < buckets[k + 1].date
           /\ \A k \in 1..Len(buckets) :
                 buckets[k].completions
                     = Cardinality({i \in Newest(50) :
                                       DayOf(i) = buckets[k].date})

\* More than 50 records over more than 7 days of several records each:
\* seven buckets, the oldest day of the newest 50 records left out.
C18_Witness ==
    /\ result.op = "getOwnerAnalyticsSummary"
    /\ Len(tourAnalytics) > 50
    /\ Len(result.value.completionsByDay) = 7
    /\ result.value.completionsByDay[7].completions > 1
    /\ Cardinality({DayKey(tourAnalytics[i].startedAt) : i \in Newest(50)}) > 7

\* C19: perTour has exactly one entry per tour of the owner, and its
\* completionRate is the one getTourAnalytics returns for that tour in
\* the same store state.
C19_PerTourRate ==
    result.op = "getOwnerAnalyticsSummary"
    => LET perTour == result.value.perTour
       IN  /\ Len(perTour) = Cardinality(OwnedTours(result.args[1]))
           /\ \A i \in OwnedTours(result.args[1]) :
                 \E k \in 1..Len(perTour) :
                    /\ perTour[k].tourId = tours[i]._id
                    /\ perTour[k].completionRate
                          = TourAnalyticsOf(tourAnalytics, tours[i]._id)
                                .completionRate
                    /\ \A other \in 1..Len(perTour) :
                          perTour[other].tourId = tours[i]._id => other = k

\* The owner has a tour some of whose records were both completed and
\* abandoned, and some neither.
C19_Witness ==
    /\ result.op = "getOwnerAnalyticsSummary"
    /\ Len(result.value.perTour) > 0
    /\ result.value.perTour[1].completionRate.num \notin {0, 100}
    /\ \E i \in RecordsOfTour(result.value.perTour[1].tourId) :
          /\ tourAnalytics[i].completedAt /= Undefined
          /\ tourAnalytics[i].abandonedAt /= Undefined

\* The stored steps of a tour, by identifier.
StepsOfTour(table, tourId) ==
    {i \in LiveSteps(table) : table[i].tourId = tourId}

\* The tour's steps are numbered 1..n, each number once.
Contiguous(table, of) ==
    /\ {table[i].order : i \in of} = 1..Cardinality(of)
    /\ \A i, j \in of : table[i].order = table[j].order => i = j

\* C20: after a successful deleteStep on a tour whose n steps have the
\* ordinals 1..n, the tour has its other n-1 steps, with the ordinals
\* 1..n-1, each once, and in the same relative order as before.
C20_Resequenced ==
    [][(Called("deleteStep") /\ result'.error = "")
       => LET id == result'.args[1]
              tourId == steps[id].tourId
              before == StepsOfTour(steps, tourId)
              after == StepsOfTour(steps', tourId)
          IN  Contiguous(steps, before)
              => /\ after = before \ {id}
                 /\ Contiguous(steps', after)
                 /\ \A i, j \in after :
                       steps[i].order < steps[j].order
                           <=> steps'[i].order < steps'[j].order]_vars

\* A step that is neither the first nor the last of a tour of at least
\* three steps, created in another order than they are numbered, has
\* been deleted.
C20_Witness ==
    /\ result.op = "deleteStep"
    /\ result.error = ""
    /\ Cardinality(StepsOfTour(steps, "t1")) >= 2
    /\ \E i, j \in StepsOfTour(steps, "t1") :
          /\ i < result.args[1] /\ result.args[1] < j
          /\ steps[j].order < steps[i].order
    /\ \E i, j \in StepsOfTour(steps, "t1") :
          steps[i].order < steps[result.args[1]].order
              /\ steps[result.args[1]].order <= steps[j].order

\* The tour is stored and the caller has no identity or is not its user.
NotOwner(tourId, subject) ==
    \E i \in LiveTours(tours) :
        /\ tours[i]._id = tourId
        /\ subject = Absent \/ tours[i].userId /= subject

\* The call threw Unauthorized and no step or tour was deleted or renumbered.
Refused == result'.error = "Unauthorized" /\ steps' = steps /\ tours' = tours

\* C21: deleteStep and deleteTour called without identity, or by a caller
\* who does not own the targeted tour, throw Unauthorized and delete or
\* re-sequence nothing.
C21_DeletionNeedsOwner ==
    [][/\ (/\ Called("deleteStep")
           /\ result'.args[1] \in LiveSteps(steps)
           /\ NotOwner(steps[result'.args[1]].tourId, result'.args[2]))
          => Refused
       /\ (Called("deleteTour") /\ NotOwner(result'.args[1], result'.args[2]))
          => Refused]_vars

\* C22: no step of any operation, deleteTour and deleteStep on the
\* record's tour included, removes a Progress Record: every identifier
\* stays, with its tourId, so totalStarted of no tour decreases.
C22_RecordsRetained ==
    [][/\ Len(tourAnalytics') >= Len(tourAnalytics)
       /\ \A i \in 1..Len(tourAnalytics) :
             tourAnalytics'[i].tourId = tourAnalytics[i].tourId
       /\ \A tourId \in TrackedTourIds :
             TourAnalyticsOf(tourAnalytics', tourId).totalStarted
                 >= TourAnalyticsOf(tourAnalytics, tourId).totalStarted]_vars

\* Tour t1 was deleted after a record was started
\* for it, and getTourAnalytics still counts the record.
C22_Witness ==
    /\ result.op = "getTourAnalytics"
    /\ result.args[1] = "t1"
    /\ result.value.totalStarted >= 1
    /\ LiveTours(tours) /= 1..Len(tours)
    /\ \A i \in LiveTours(tours) : tours[i]._id /= "t1"

\* Positions in emitted of the terminal callbacks.
Terminals ==
    {k \in 1..Len(emitted) : emitted[k].name \in {"onComplete", "onAbandon"}}

\* C23: one mounted Widget invokes onComplete and onAbandon at most once
\* in total, and no callback after it.
C23_OneTerminalCallback ==
    /\ Cardinality(Terminals) <= 1
    /\ \A k \in Terminals : k = Len(emitted)

\* After a step was completed and Back was pressed or a saved step
\* restored, the tour was skipped and the Widget is hidden.
C23_Witness ==
    /\ Len(emitted) >= 3
    /\ emitted[Len(emitted)].name = "onAbandon"
    /\ \E k \in 1..Len(emitted) : emitted[k].name = "onStepComplete"
    /\ ~widget.straight
    /\ ~widget.isVisible

\* C24: a completeStep that found its record changes the stepProgress
\* entry of the given step in that record and nothing else: the record's
\* other fields, its entries for other steps and all other records stay.
C24_CompleteStepFrame ==
    [][(Called("completeStep") /\ result'.error = "")
       => LET id == result'.args[1]
              stepId == result'.args[2]
              before == tourAnalytics[id].stepProgress
              after == tourAnalytics'[id].stepProgress
          IN  /\ Len(tourAnalytics') = Len(tourAnalytics)
              /\ \A i \in 1..Len(tourAnalytics) :
                    i /= id => tourAnalytics'[i] = tourAnalytics[i]
              /\ [tourAnalytics'[id] EXCEPT !.stepProgress = before]
                     = tourAnalytics[id]
              /\ \A j \in 1..Len(before) :
                    before[j].stepId /= stepId => after[j] = before[j]
              /\ \A j \in 1..Len(after) :
                    after[j].stepId /= stepId => j <= Len(before)]_vars

\* completeStep ran on a record that has an entry for another step,
\* while another record is stored.
C24_Witness ==
    /\ result.op = "completeStep"
    /\ result.error = ""
    /\ Len(tourAnalytics) >= 2
    /\ \E j \in 1..Len(tourAnalytics[result.args[1]].stepProgress) :
          tourAnalytics[result.args[1]].stepProgress[j].stepId
              /= result.args[2]

\* C25: completeTour changes the completion timestamp of its record and
\* abandonTour the abandonment timestamp of its record, and nothing else:
\* not the other terminal timestamp, stepProgress, startedAt or any other
\* record.
C25_TerminalFrame ==
    [][/\ (Called("completeTour") /\ result'.error = "")
          => /\ [tourAnalytics' EXCEPT ![result'.args[1]].completedAt =
                     tourAnalytics[result'.args[1]].completedAt]
                    = tourAnalytics
             /\ tourAnalytics'[result'.args[1]].completedAt = clock'
       /\ (Called("abandonTour") /\ result'.error = "")
          => /\ [tourAnalytics' EXCEPT ![result'.args[1]].abandonedAt =
                     tourAnalytics[result'.args[1]].abandonedAt]
                    = tourAnalytics
             /\ tourAnalytics'[result'.args[1]].abandonedAt = clock']_vars

\* abandonTour ran on a record that had been completed and has a step
\* entry: the completion timestamp is still there.
C25_Witness ==
    /\ result.op = "abandonTour"
    /\ result.error = ""
    /\ tourAnalytics[result.args[1]].completedAt /= Undefined
    /\ tourAnalytics[result.args[1]].stepProgress /= <<>>

\* onStepComplete was invoked for the step before the last callback.
Reported(stepId) ==
    \E k \in 1..(Len(emitted) - 1) :
        emitted[k] = Callback("onStepComplete", stepId)

\* C26: when the tour was walked from its first step to the end with
\* Next alone, onStepComplete has been invoked for each of its steps, the
\* last one included, before onComplete is.
C26_EveryStepReported ==
    (/\ widget.mounted
     /\ widget.straight
     /\ emitted /= <<>>
     /\ emitted[Len(emitted)].name = "onComplete")
    => \A stepId \in 1..Len(widget.steps) : Reported(widget.steps[stepId])

\* C27: the current step of a mounted Widget is always defined:
\* 0 <= currentStepIndex < steps.length, also after the saved index was
\* restored from localStorage.
C27_IndexInRange ==
    widget.mounted
    => /\ 0 <= widget.currentStepIndex
       /\ widget.currentStepIndex < Len(widget.steps)

\* C28: every step entry has a completion timestamp, not earlier than its
\* start timestamp, so every per-step completionRate that getTourAnalytics
\* emits is 100.
C28_StepEntriesCompleted ==
    /\ \A i \in 1..Len(tourAnalytics) :
          \A j \in 1..Len(tourAnalytics[i].stepProgress) :
             LET entry == tourAnalytics[i].stepProgress[j]
             IN  /\ entry.completedAt /= Undefined
                 /\ entry.startedAt <= entry.completedAt
    /\ result.op = "getTourAnalytics"
          => \A k \in 1..Len(result.value.stepCompletionRates) :
                result.value.stepCompletionRates[k].completionRate
                    = [num |-> 100, den |-> 1]

\* A step was completed a second time at a later instant, and
\* getTourAnalytics returned its rate.
C28_Witness ==
    /\ result.op = "getTourAnalytics"
    /\ result.value.stepCompletionRates /= <<>>
    /\ \E i \in RecordsOfTour(result.args[1]) :
          \E j \in 1..Len(tourAnalytics[i].stepProgress) :
             tourAnalytics[i].stepProgress[j].startedAt
                 < tourAnalytics[i].stepProgress[j].completedAt

====
